---- MODULE Spec2Model ----
(***************************************************************************)
(* A model of the DALL-E BART text encoder of                              *)
(* src/models/dalle_bart_encoder_torch.py.                                 *)
(*                                                                         *)
(* Tensors are modelled as torch sees them: a shape and the elements in    *)
(* row-major order, so that transpose, reshape (with its -1 dimension),    *)
(* squeeze and einsum are index arithmetic that can go wrong.              *)
(*                                                                         *)
(* Floating point is modelled as fixed point: the integer v stands for the *)
(* real v / Unit, a product is rounded down to a multiple of 1 / Unit, and *)
(* the two IEEE values the code relies on, -inf and NaN, are two integers  *)
(* outside the range any computation reaches.  exp is modelled by a power  *)
(* of two that underflows to 0, the square root by its rounded-down fixed  *)
(* point value and the Gaussian CDF of GELU by a clamped line.             *)
(***************************************************************************)
EXTENDS Integers, Sequences, FiniteSets, TLC

\* Fixed-point precision: v stands for v / Unit.
Unit == 16
\* exp(d) for d <= 0 is 2^(ExpBits - |d|), and 0 (underflow) below 2^0.
ExpBits == 8
\* The longest token row a call is given.
MaxSeq == 2

NaN == 0 - 2^24
NegInf == 0 - 2^23

--------------------------------------------------------------------------
(* Floating-point arithmetic *)

FAdd(a, b) ==
    IF a = NaN \/ b = NaN THEN NaN
    ELSE IF a = NegInf \/ b = NegInf THEN NegInf
    ELSE a + b

FMul(a, b) ==
    IF a = NaN \/ b = NaN \/ a = NegInf \/ b = NegInf THEN NaN
    ELSE (a * b) \div Unit

FDiv(a, b) ==
    IF a = NaN \/ b = NaN \/ a = NegInf \/ b = NegInf \/ b = 0 THEN NaN
    ELSE (a * Unit) \div b

FSub(a, b) ==
    IF a = NaN \/ b = NaN \/ b = NegInf THEN NaN
    ELSE IF a = NegInf THEN NegInf
    ELSE a - b

RECURSIVE FSum(_, _)
\* f[1] + ... + f[n]
FSum(f, n) == IF n = 0 THEN 0 ELSE FAdd(FSum(f, n - 1), f[n])

RECURSIVE FMax(_, _)
\* The maximum of f[1], ..., f[n], n >= 1: NaN if any of them is NaN.
FMax(f, n) ==
    IF n = 1 THEN f[1]
    ELSE LET m == FMax(f, n - 1)
             a == f[n]
         IN  IF a = NaN \/ m = NaN THEN NaN
             ELSE IF a = NegInf THEN m
             ELSE IF m = NegInf THEN a
             ELSE IF a >= m THEN a ELSE m

RECURSIVE ISqrt(_)
\* The integer square root, rounded down.
ISqrt(n) ==
    IF n < 2 THEN n
    ELSE LET r == 2 * ISqrt(n \div 4)
         IN  IF (r + 1) * (r + 1) > n THEN r ELSE r + 1

\* The fixed-point square root of the fixed-point a >= 0.
FSqrt(a) == IF a = NaN THEN NaN ELSE ISqrt(a * Unit)

\* exp(d) of a difference d <= 0 to the row maximum, as softmax needs it.
FExp(d) ==
    IF d = NaN THEN NaN
    ELSE IF d = NegInf THEN 0
    ELSE LET steps == (0 - d) \div Unit
         IN  IF steps > ExpBits THEN 0 ELSE 2 ^ (ExpBits - steps)

\* The Gaussian CDF, clamped line through (0, 1/2) with slope 1/4.
FPhi(a) ==
    LET y == Unit \div 2 + a \div 4
    IN  IF y < 0 THEN 0 ELSE IF y > Unit THEN Unit ELSE y

FGelu(a) == IF a = NaN THEN NaN ELSE FMul(a, FPhi(a))

--------------------------------------------------------------------------
(* Tensors: [shape |-> <<d0, ..., dn>>, data |-> row-major elements] *)

RECURSIVE Numel(_)
Numel(shape) == IF shape = <<>> THEN 1 ELSE Head(shape) * Numel(Tail(shape))

RECURSIVE Flatten(_, _)
\* The row-major offset of the 0-based index idx in a tensor of this shape.
Flatten(shape, idx) ==
    IF shape = <<>> THEN 0
    ELSE Head(idx) * Numel(Tail(shape)) + Flatten(Tail(shape), Tail(idx))

RECURSIVE Unflatten(_, _)
Unflatten(shape, n) ==
    IF shape = <<>> THEN <<>>
    ELSE <<n \div Numel(Tail(shape))>>
            \o Unflatten(Tail(shape), n % Numel(Tail(shape)))

At(t, idx) == t.data[Flatten(t.shape, idx) + 1]

RECURSIVE ForceFrom(_, _, _)
ForceFrom(f, i, n) == IF i > n THEN <<>> ELSE <<f[i]>> \o ForceFrom(f, i + 1, n)

\* The first n values of f as a tuple (every element computed once).
Force(f, n) == ForceFrom(f, 1, n)

MkTensor(shape, F(_)) ==
    [shape |-> shape,
     data |-> Force([n \in 1..Numel(shape) |-> F(Unflatten(shape, n - 1))],
                    Numel(shape))]

Swap(s, i, j) ==
    Force([k \in 1..Len(s) |->
              IF k = i + 1 THEN s[j + 1] ELSE IF k = j + 1 THEN s[i + 1] ELSE s[k]],
          Len(s))

\* torch.Tensor.transpose(i, j)
Transpose(t, i, j) ==
    MkTensor(Swap(t.shape, i, j), LAMBDA idx : At(t, Swap(idx, i, j)))

RECURSIVE KnownProd(_)
KnownProd(shape) ==
    IF shape = <<>> THEN 1
    ELSE (IF Head(shape) = -1 THEN 1 ELSE Head(shape)) * KnownProd(Tail(shape))

HasInferred(shape) == \E i \in 1..Len(shape) : shape[i] = -1

\* Whether torch.Tensor.reshape(shape) succeeds.
ReshapeOk(t, shape) ==
    IF HasInferred(shape)
    THEN KnownProd(shape) > 0 /\ Numel(t.shape) % KnownProd(shape) = 0
    ELSE Numel(t.shape) = KnownProd(shape)

\* torch.Tensor.reshape(shape): the elements keep their row-major order.
Reshape(t, shape) ==
    [shape |-> Force([i \in 1..Len(shape) |->
                          IF shape[i] = -1
                          THEN Numel(t.shape) \div KnownProd(shape)
                          ELSE shape[i]],
                     Len(shape)),
     data |-> t.data]

\* torch.Tensor.unsqueeze(d)
Unsqueeze(t, d) ==
    [shape |-> SubSeq(t.shape, 1, d) \o <<1>> \o SubSeq(t.shape, d + 1, Len(t.shape)),
     data |-> t.data]

\* torch.Tensor.squeeze(d): drops dimension d if its size is 1.
Squeeze(t, d) ==
    IF t.shape[d + 1] = 1
    THEN [shape |-> SubSeq(t.shape, 1, d) \o SubSeq(t.shape, d + 2, Len(t.shape)),
          data |-> t.data]
    ELSE t

\* Elementwise a + b and a * b of two tensors of one shape.
TAdd(a, b) == [shape |-> a.shape,
               data |-> Force([n \in 1..Len(a.data) |-> FAdd(a.data[n], b.data[n])],
                              Len(a.data))]

TMul(a, b) == [shape |-> a.shape,
               data |-> Force([n \in 1..Len(a.data) |-> FMul(a.data[n], b.data[n])],
                              Len(a.data))]

\* idx with its d-th (0-based) component replaced by v.
SetAt(idx, d, v) == [idx EXCEPT ![d + 1] = v]

Rank(t) == Len(t.shape)

--------------------------------------------------------------------------
(* The torch.nn layers the encoder is built from *)

\* nn.LayerNorm(n).forward(x): over the last axis of x, eps one fixed-point step.
LayerNormForward(ln, x) ==
    LET d == Rank(x) - 1
        n == x.shape[d + 1]
        Row(idx) == Force([i \in 1..n |-> At(x, SetAt(idx, d, i - 1))], n)
        Mean(row) == FDiv(FSum(row, n), n * Unit)
        Var(row) ==
            LET mu == Mean(row)
            IN  FDiv(FSum([i \in 1..n |-> FMul(FSub(row[i], mu), FSub(row[i], mu))], n),
                     n * Unit)
        Norm(idx) ==
            LET row == Row(idx)
                mu == Mean(row)
                sd == FSqrt(FAdd(Var(row), 1))
                i == idx[d + 1]
            IN  FAdd(FMul(FDiv(FSub(row[i + 1], mu), sd), ln.weight[i + 1]),
                     ln.bias[i + 1])
    IN  MkTensor(x.shape, Norm)

\* nn.Linear(in, out, bias=False).forward(x): weight is [out, in].
LinearForward(weight, x) ==
    LET d == Rank(x) - 1
        n == weight.shape[2]
    IN  MkTensor(SetAt(x.shape, d, weight.shape[1]),
                 LAMBDA idx :
                    FSum([i \in 1..n |->
                            FMul(At(weight, <<idx[d + 1], i - 1>>),
                                 At(x, SetAt(idx, d, i - 1)))], n))

\* nn.Conv2d(in, out, 1, bias=False).forward(x): x is [b, in, 1, q].
Conv2dForward(weight, x) ==
    LET n == weight.shape[2]
    IN  MkTensor(SetAt(x.shape, 1, weight.shape[1]),
                 LAMBDA idx :
                    FSum([i \in 1..n |->
                            FMul(At(weight, <<idx[2], i - 1, 0, 0>>),
                                 At(x, SetAt(idx, 1, i - 1)))], n))

\* Whether nn.Embedding.forward(ids) finds every id in its table.
EmbeddingOk(table, ids) ==
    \A n \in 1..Len(ids.data) : ids.data[n] >= 0 /\ ids.data[n] < table.shape[1]

\* nn.Embedding.forward(ids): the table's row of each id.
EmbeddingForward(table, ids) ==
    LET r == Rank(ids)
    IN  MkTensor(Append(ids.shape, table.shape[2]),
                 LAMBDA idx : At(table, <<At(ids, SubSeq(idx, 1, r)), idx[r + 1]>>))

\* nn.GELU.forward(x)
GeluForward(x) ==
    [shape |-> x.shape,
     data |-> Force([n \in 1..Len(x.data) |-> FGelu(x.data[n])], Len(x.data))]

--------------------------------------------------------------------------
(* Weights: supplied from outside; here small values spread by a seed *)

GenValue(seed, n) ==
    (((n + 2 * seed + 1) * (n + seed + 3) * (n + 5) + seed) % (2 * Unit + 1)) - Unit

GenTensor(seed, shape) ==
    MkTensor(shape, LAMBDA idx : GenValue(seed, Flatten(shape, idx)))

GenLayerNorm(seed, n) ==
    [weight |-> Force([i \in 1..n |-> Unit + ((i + seed) % 3)], n),
     bias |-> Force([i \in 1..n |-> ((i * 2 + seed) % 5) - 2], n)]

--------------------------------------------------------------------------
(* class GLUTorch *)

GLUInit(seed, count_in_out, count_middle) ==
    [ln0 |-> GenLayerNorm(seed, count_in_out),
     ln1 |-> GenLayerNorm(seed + 1, count_middle),
     fc0 |-> GenTensor(seed + 2, <<count_middle, count_in_out>>),
     fc1 |-> GenTensor(seed + 3, <<count_middle, count_in_out>>),
     fc2 |-> GenTensor(seed + 4, <<count_in_out, count_middle>>)]

GLUForward(glu, z0) ==
    LET z1 == LayerNormForward(glu.ln0, z0)
        w1 == LinearForward(glu.fc0, z1)
        w2 == GeluForward(w1)
        v == LinearForward(glu.fc1, z1)
        z2 == LayerNormForward(glu.ln1, TMul(w2, v))
    IN  LinearForward(glu.fc2, z2)

--------------------------------------------------------------------------
(* class AttentionTorch *)

AttentionInit(seed, head_count, embed_count) ==
    [head_count |-> head_count,
     embed_count |-> embed_count,
     head_dim |-> embed_count \div head_count,
     k_proj |-> GenTensor(seed + 5, <<embed_count, embed_count, 1, 1>>),
     v_proj |-> GenTensor(seed + 6, <<embed_count, embed_count, 1, 1>>),
     q_proj |-> GenTensor(seed + 7, <<embed_count, embed_count, 1, 1>>),
     out_proj |-> GenTensor(seed + 8, <<embed_count, embed_count, 1, 1>>)]

\* keys.shape[:2] + (self.head_count, -1), of the transposed keys
KeysShape(att, keys) == SubSeq(Transpose(keys, 1, 3).shape, 1, 2) \o <<att.head_count, -1>>

KeysSplitOk(att, keys) == ReshapeOk(Transpose(keys, 1, 3), KeysShape(att, keys))

\* A slip: the keys are reshaped without the transpose.
KeysSplitUntransposed(att, keys) == Reshape(keys, KeysShape(att, keys))

\* b(hc)1q -> bqhc
KeysSplit(att, keys) == Reshape(Transpose(keys, 1, 3), KeysShape(att, keys))

\* shape = (batch_count, self.head_count, self.head_dim, -1)
HeadsShape(att, batch_count) == <<batch_count, att.head_count, att.head_dim, -1>>

HeadsSplitOk(att, batch_count, x) == ReshapeOk(x, HeadsShape(att, batch_count))

\* b(hc)1q -> bchq, for values and for queries
HeadsSplit(att, batch_count, x) ==
    Transpose(Reshape(x, HeadsShape(att, batch_count)), 1, 2)

\* torch.where(attention_mask, zeros([1, 1]), ones([1, 1]) * (-inf))
AttentionBias(attention_mask) ==
    [shape |-> attention_mask.shape,
     data |-> Force([n \in 1..Len(attention_mask.data) |->
                        IF attention_mask.data[n] THEN 0 ELSE NegInf],
                    Len(attention_mask.data))]

\* einsum('bchq,bkhc->bkhq', queries / head_dim ** 0.5, keys)
AttentionScores(att, queries, keys) ==
    LET c == queries.shape[2]
        root == FSqrt(att.head_dim * Unit)
    IN  MkTensor(<<queries.shape[1], keys.shape[2], queries.shape[3], queries.shape[4]>>,
                 LAMBDA idx :
                    FSum([i \in 1..c |->
                            FMul(FDiv(At(queries, <<idx[1], i - 1, idx[3], idx[4]>>), root),
                                 At(keys, <<idx[1], idx[2], idx[3], i - 1>>))], c))

\* A slip: the bias indexed [:, None, None, :], along the queries.
AddBiasAlongQueries(attention_weights, attention_bias) ==
    MkTensor(attention_weights.shape,
             LAMBDA idx : FAdd(At(attention_weights, idx),
                               At(attention_bias, <<idx[1], idx[4]>>)))

\* A slip: the bias of the first batch row added to every row.
AddBiasOfFirstRow(attention_weights, attention_bias) ==
    MkTensor(attention_weights.shape,
             LAMBDA idx : FAdd(At(attention_weights, idx),
                               At(attention_bias, <<0, idx[2]>>)))

\* attention_weights += attention_bias[:, :, None, None]
AddBias(attention_weights, attention_bias) ==
    MkTensor(attention_weights.shape,
             LAMBDA idx : FAdd(At(attention_weights, idx),
                               At(attention_bias, <<idx[1], idx[2]>>)))

\* torch.softmax(t, dim)
Softmax(t, dim) ==
    LET n == t.shape[dim + 1]
        Prob(idx) ==
            LET row == Force([k \in 1..n |-> At(t, SetAt(idx, dim, k - 1))], n)
                m == FMax(row, n)
                e == Force([k \in 1..n |->
                              FExp(IF m = NegInf THEN NaN ELSE FSub(row[k], m))], n)
            IN  FDiv(e[idx[dim + 1] + 1], FSum(e, n))
    IN  MkTensor(t.shape, Prob)

\* einsum("bkhq,bchk->bchq", attention_weights, values)
WeightedSum(attention_weights, values) ==
    LET n == attention_weights.shape[2]
    IN  MkTensor(<<attention_weights.shape[1], values.shape[2],
                   attention_weights.shape[3], attention_weights.shape[4]>>,
                 LAMBDA idx :
                    FSum([k \in 1..n |->
                            FMul(At(attention_weights, <<idx[1], k - 1, idx[3], idx[4]>>),
                                 At(values, <<idx[1], idx[2], idx[3], k - 1>>))], n))

\* A slip: the heads are merged without the transpose.
HeadsMergeUntransposed(att, batch_count, hidden_state) ==
    Reshape(hidden_state, <<batch_count, att.embed_count, 1, -1>>)

\* bchq -> b(hc)1q
HeadsMerge(att, batch_count, hidden_state) ==
    Reshape(Transpose(hidden_state, 1, 2), <<batch_count, att.embed_count, 1, -1>>)

\* The weighted sum of AttentionTorch.forward, before out_proj.
AttentionHidden(att, keys, values, queries, attention_mask) ==
    LET batch_count == keys.shape[1]
        k == KeysSplit(att, keys)
        v == HeadsSplit(att, batch_count, values)
        q == HeadsSplit(att, batch_count, queries)
        w == Softmax(AddBias(AttentionScores(att, q, k),
                             AttentionBias(attention_mask)), 1)
    IN  HeadsMerge(att, batch_count, WeightedSum(w, v))

AttentionForward(att, keys, values, queries, attention_mask) ==
    Conv2dForward(att.out_proj,
                  AttentionHidden(att, keys, values, queries, attention_mask))

--------------------------------------------------------------------------
(* class EncoderSelfAttentionTorch(AttentionTorch) *)

\* encoder_state.transpose(1, 2).unsqueeze(2)
SelfAttentionInput(encoder_state) == Unsqueeze(Transpose(encoder_state, 1, 2), 2)

EncoderSelfAttentionForward(att, encoder_state, attention_mask) ==
    LET x == SelfAttentionInput(encoder_state)
    IN  AttentionForward(att,
                         Conv2dForward(att.k_proj, x),
                         Conv2dForward(att.v_proj, x),
                         Conv2dForward(att.q_proj, x),
                         attention_mask)

--------------------------------------------------------------------------
(* class EncoderLayerTorch *)

EncoderLayerInit(seed, embed_count, head_count, glu_embed_count) ==
    [pre_self_attn_layer_norm |-> GenLayerNorm(seed, embed_count),
     self_attn |-> AttentionInit(seed, head_count, embed_count),
     self_attn_layer_norm |-> GenLayerNorm(seed + 1, embed_count),
     glu |-> GLUInit(seed, embed_count, glu_embed_count)]

\* A slip: the unit axis is left in.
AttentionOutputUnsqueezed(encoder_state) == Transpose(encoder_state, 1, 3)

\* encoder_state.transpose(1, 3).squeeze(2)
AttentionOutput(encoder_state) == Squeeze(Transpose(encoder_state, 1, 3), 2)

EncoderLayerForward(layer, encoder_state, attention_mask) ==
    LET residual == encoder_state
        normed == LayerNormForward(layer.pre_self_attn_layer_norm, encoder_state)
        attended == EncoderSelfAttentionForward(layer.self_attn, normed, attention_mask)
        post == LayerNormForward(layer.self_attn_layer_norm, AttentionOutput(attended))
        mid == TAdd(residual, post)
    IN  TAdd(mid, GLUForward(layer.glu, mid))

--------------------------------------------------------------------------
(* class DalleBartEncoderTorch *)

DalleBartEncoderInit(c) ==
    [embed_tokens |-> GenTensor(1, <<c.text_vocab_count, c.embed_count>>),
     embed_positions |-> GenTensor(2, <<c.text_token_count, c.embed_count>>),
     layers |-> Force([i \in 1..c.layer_count |->
                        EncoderLayerInit(i * 3, c.embed_count,
                                         c.attention_head_count, c.glu_embed_count)],
                      c.layer_count),
     layernorm_embedding |-> GenLayerNorm(3, c.embed_count),
     final_ln |-> GenLayerNorm(4, c.embed_count)]

\* text_tokens.not_equal(1)
AttentionMask(text_tokens) ==
    [shape |-> text_tokens.shape,
     data |-> Force([n \in 1..Len(text_tokens.data) |-> text_tokens.data[n] # 1],
                    Len(text_tokens.data))]

\* torch.stack([torch.arange(token_count)] * batch_count)
PoseTokens(text_tokens) == MkTensor(text_tokens.shape, LAMBDA idx : idx[2])

\* self.embed_tokens.forward(text_tokens) + self.embed_positions.forward(pose_tokens)
EmbedSum(enc, text_tokens) ==
    TAdd(EmbeddingForward(enc.embed_tokens, text_tokens),
         EmbeddingForward(enc.embed_positions, PoseTokens(text_tokens)))

RECURSIVE RunLayers(_, _, _, _)
\* for layer in self.layers: the first n layers, in order
RunLayers(enc, n, encoder_state, attention_mask) ==
    IF n = 0 THEN encoder_state
    ELSE EncoderLayerForward(enc.layers[n],
                             RunLayers(enc, n - 1, encoder_state, attention_mask),
                             attention_mask)

\* DalleBartEncoderTorch.forward of a call that raises nothing.
EncoderForward(enc, text_tokens) ==
    LET attention_mask == AttentionMask(text_tokens)
        embedded == LayerNormForward(enc.layernorm_embedding, EmbedSum(enc, text_tokens))
    IN  LayerNormForward(enc.final_ln,
                         RunLayers(enc, Len(enc.layers), embedded, attention_mask))

\* A token tensor [batch, seq_len] from its rows.
Tokens(rows) ==
    MkTensor(<<Len(rows), Len(rows[1])>>, LAMBDA idx : rows[idx[1] + 1][idx[2] + 1])

--------------------------------------------------------------------------
(* The program: an encoder is constructed, then called any number of times *)

VARIABLES
    pc,                 \* "new", "ready", the line a call is at, "done", "raised"
    cfg,                \* the constructor's arguments
    enc,                \* the constructed module: its weights
    text_tokens,        \* the call's argument
    attention_mask, encoder_state, residual, layer,
    keys, values, queries, attention_bias, attention_weights, hidden_state,
    error,              \* the exception a call raised, and the line
    output,             \* what the call returned
    trace,              \* history: the encoder's stages the call has run
    args,               \* history: the arguments of AttentionTorch.forward
    layer_input,        \* history: the argument of EncoderLayerTorch.forward
    failed_before       \* history: an earlier call of this encoder raised

vars == <<pc, cfg, enc, text_tokens, attention_mask, encoder_state, residual, layer,
          keys, values, queries, attention_bias, attention_weights, hidden_state,
          error, output, trace, args, layer_input, failed_before>>

locals == <<attention_mask, encoder_state, residual, layer, keys, values, queries,
            attention_bias, attention_weights, hidden_state, args, layer_input>>

attn_locals == <<keys, values, queries, attention_bias, attention_weights,
                 hidden_state, args>>

NoTensor == [shape |-> <<>>, data |-> <<>>]
NoArgs == [keys |-> NoTensor, values |-> NoTensor, queries |-> NoTensor]
NoError == [type |-> "", line |-> 0]
NoConfig == [layer_count |-> 0, embed_count |-> 0, attention_head_count |-> 0,
             text_vocab_count |-> 0, text_token_count |-> 0, glu_embed_count |-> 0]
NoEncoder == [embed_tokens |-> NoTensor, embed_positions |-> NoTensor, layers |-> <<>>,
              layernorm_embedding |-> [weight |-> <<>>, bias |-> <<>>],
              final_ln |-> [weight |-> <<>>, bias |-> <<>>]]

\* The constructor arguments tried: one head, and two heads of two channels in
\* two layers, both with a vocabulary of two ids; two heads of one channel
\* with a position table of one row; and a head count that does not divide
\* the embedding width, with a layer and without.
Configs ==
    { [layer_count |-> 1, embed_count |-> 2, attention_head_count |-> 1,
       text_vocab_count |-> 2, text_token_count |-> MaxSeq, glu_embed_count |-> 2],
      [layer_count |-> 2, embed_count |-> 4, attention_head_count |-> 2,
       text_vocab_count |-> 2, text_token_count |-> MaxSeq, glu_embed_count |-> 3],
      [layer_count |-> 1, embed_count |-> 2, attention_head_count |-> 2,
       text_vocab_count |-> 3, text_token_count |-> 1, glu_embed_count |-> 2],
      [layer_count |-> 1, embed_count |-> 3, attention_head_count |-> 2,
       text_vocab_count |-> 3, text_token_count |-> MaxSeq, glu_embed_count |-> 2],
      [layer_count |-> 0, embed_count |-> 3, attention_head_count |-> 2,
       text_vocab_count |-> 3, text_token_count |-> 1, glu_embed_count |-> 2] }

\* Token ids a caller passes: 0 (a word), 1 (pad), 2 (a word, or no id at all).
TokenIds == {0, 1, 2}
BatchCounts == {1, 2}

Init ==
    /\ pc = "new"
    /\ cfg = NoConfig
    /\ enc = NoEncoder
    /\ text_tokens = NoTensor
    /\ attention_mask = NoTensor
    /\ encoder_state = NoTensor
    /\ residual = NoTensor
    /\ layer = 0
    /\ keys = NoTensor
    /\ values = NoTensor
    /\ queries = NoTensor
    /\ attention_bias = NoTensor
    /\ attention_weights = NoTensor
    /\ hidden_state = NoTensor
    /\ error = NoError
    /\ output = NoTensor
    /\ trace = <<>>
    /\ args = NoArgs
    /\ layer_input = NoTensor
    /\ failed_before = FALSE

Stage(name, index) == [stage |-> name, index |-> index]

\* The layer a call is in, and its attention module.
ThisLayer == enc.layers[layer + 1]
self_attn == ThisLayer.self_attn

\* DalleBartEncoderTorch.__init__: nothing in it rejects its arguments.
Construct ==
    /\ pc = "new"
    /\ \E c \in Configs :
          /\ cfg' = c
          /\ enc' = DalleBartEncoderInit(c)
    /\ pc' = "ready"
    /\ UNCHANGED <<text_tokens, locals, error, output, trace, failed_before>>

\* A caller calls forward(text_tokens).
Call ==
    /\ pc = "ready"
    /\ \E n \in 1..MaxSeq, b \in BatchCounts :
          \E rows \in [1..b -> [1..n -> TokenIds]] :
              text_tokens' = Tokens(rows)
    /\ pc' = "L148"
    /\ UNCHANGED <<cfg, enc, locals, error, output, trace, failed_before>>

\* attention_mask = text_tokens.not_equal(1)
DeriveMask ==
    /\ pc = "L148"
    /\ attention_mask' = AttentionMask(text_tokens)
    /\ pc' = "L152"
    /\ UNCHANGED <<cfg, enc, text_tokens, encoder_state, residual, layer, attn_locals,
                   error, output, trace, layer_input, failed_before>>

Raise(type, line) ==
    /\ error' = [type |-> type, line |-> line]
    /\ pc' = "raised"
    /\ UNCHANGED <<cfg, enc, text_tokens, locals, output, trace, failed_before>>

\* t with every element brought into 0 .. n - 1.
Clamped(t, n) ==
    [shape |-> t.shape,
     data |-> Force([i \in 1..Len(t.data) |->
                        IF t.data[i] < 0 THEN 0
                        ELSE IF t.data[i] >= n THEN n - 1 ELSE t.data[i]],
                    Len(t.data))]

\* A slip: a lookup that clamps an id that is not in the table, and goes on.
EmbedTokensClamped ==
    /\ pc = "L152"
    /\ ~EmbeddingOk(enc.embed_tokens, text_tokens)
    /\ encoder_state' =
          TAdd(EmbeddingForward(enc.embed_tokens,
                                Clamped(text_tokens, cfg.text_vocab_count)),
               EmbeddingForward(enc.embed_positions,
                                Clamped(PoseTokens(text_tokens), cfg.text_token_count)))
    /\ trace' = Append(trace, Stage("embed", 0))
    /\ pc' = "L155"
    /\ UNCHANGED <<cfg, enc, text_tokens, attention_mask, residual, layer, attn_locals,
                   error, output, layer_input, failed_before>>

\* self.embed_tokens.forward(text_tokens) raises on an id that is not in the table.
EmbedTokensFail ==
    /\ pc = "L152"
    /\ ~EmbeddingOk(enc.embed_tokens, text_tokens)
    /\ Raise("IndexError", 152)

\* self.embed_positions.forward(pose_tokens) raises on a position that is not.
EmbedPositionsFail ==
    /\ pc = "L152"
    /\ EmbeddingOk(enc.embed_tokens, text_tokens)
    /\ ~EmbeddingOk(enc.embed_positions, PoseTokens(text_tokens))
    /\ Raise("IndexError", 153)

Embed ==
    /\ pc = "L152"
    /\ EmbeddingOk(enc.embed_tokens, text_tokens)
    /\ EmbeddingOk(enc.embed_positions, PoseTokens(text_tokens))
    /\ encoder_state' = EmbedSum(enc, text_tokens)
    /\ trace' = Append(trace, Stage("embed", 0))
    /\ pc' = "L155"
    /\ UNCHANGED <<cfg, enc, text_tokens, attention_mask, residual, layer, attn_locals,
                   error, output, layer_input, failed_before>>

\* encoder_state = self.layernorm_embedding.forward(encoder_state)
EmbedNorm ==
    /\ pc = "L155"
    /\ encoder_state' = LayerNormForward(enc.layernorm_embedding, encoder_state)
    /\ trace' = Append(trace, Stage("layernorm_embedding", 0))
    /\ pc' = "L156"
    /\ UNCHANGED <<cfg, enc, text_tokens, attention_mask, residual, layer, attn_locals,
                   error, output, layer_input, failed_before>>

\* for layer in self.layers: the next layer is called
LoopEnter ==
    /\ pc = "L156"
    /\ layer < Len(enc.layers)
    /\ layer_input' = encoder_state
    /\ trace' = Append(trace, Stage("layer", layer))
    /\ pc' = "L112"
    /\ UNCHANGED <<cfg, enc, text_tokens, attention_mask, encoder_state, residual, layer,
                   attn_locals, error, output, failed_before>>

\* A slip: the loop is left once a layer has run.
LoopExitAfterFirstLayer ==
    /\ pc = "L156"
    /\ (layer >= 1 \/ layer = Len(enc.layers))
    /\ pc' = "L158"
    /\ UNCHANGED <<cfg, enc, text_tokens, locals, error, output, trace, failed_before>>

\* for layer in self.layers: no layer is left
LoopExit ==
    /\ pc = "L156"
    /\ layer = Len(enc.layers)
    /\ pc' = "L158"
    /\ UNCHANGED <<cfg, enc, text_tokens, locals, error, output, trace, failed_before>>

--------------------------------------------------------------------------
(* EncoderLayerTorch.forward, line by line *)

call_frame == <<cfg, enc, text_tokens, attention_mask, error, output, trace,
                layer_input, failed_before>>

\* residual = encoder_state; encoder_state = self.pre_self_attn_layer_norm.forward(...)
PreNorm ==
    /\ pc = "L112"
    /\ residual' = encoder_state
    /\ encoder_state' = LayerNormForward(ThisLayer.pre_self_attn_layer_norm, encoder_state)
    /\ pc' = "L91"
    /\ UNCHANGED <<call_frame, layer, attn_locals>>

\* EncoderSelfAttentionTorch.forward: the three projections of the layer's input
Project ==
    /\ pc = "L91"
    /\ LET x == SelfAttentionInput(encoder_state)
           k == Conv2dForward(self_attn.k_proj, x)
           v == Conv2dForward(self_attn.v_proj, x)
           q == Conv2dForward(self_attn.q_proj, x)
       IN  /\ keys' = k
           /\ values' = v
           /\ queries' = q
           /\ args' = [keys |-> k, values |-> v, queries |-> q]
    /\ pc' = "L46"
    /\ UNCHANGED <<call_frame, encoder_state, residual, layer, attention_bias,
                   attention_weights, hidden_state>>

\* keys = keys.transpose(1, 3); keys = keys.reshape(keys.shape[:2] + (head_count, -1))
SplitKeys ==
    /\ pc = "L46"
    /\ KeysSplitOk(self_attn, keys)
    /\ keys' = KeysSplit(self_attn, keys)
    /\ pc' = "L50"
    /\ UNCHANGED <<call_frame, encoder_state, residual, layer, values, queries,
                   attention_bias, attention_weights, hidden_state, args>>

\* The reshape of the keys raises: head_count does not divide their channels.
SplitKeysFail ==
    /\ pc = "L46"
    /\ ~KeysSplitOk(self_attn, keys)
    /\ Raise("RuntimeError", 47)

\* values and queries: reshape(shape) and transpose(1, 2)
SplitHeads ==
    /\ pc = "L50"
    /\ HeadsSplitOk(self_attn, args.keys.shape[1], values)
    /\ HeadsSplitOk(self_attn, args.keys.shape[1], queries)
    /\ values' = HeadsSplit(self_attn, args.keys.shape[1], values)
    /\ queries' = HeadsSplit(self_attn, args.keys.shape[1], queries)
    /\ pc' = "L58"
    /\ UNCHANGED <<call_frame, encoder_state, residual, layer, keys,
                   attention_bias, attention_weights, hidden_state, args>>

\* attention_bias = torch.where(attention_mask, 0, -inf)
Bias ==
    /\ pc = "L58"
    /\ attention_bias' = AttentionBias(attention_mask)
    /\ pc' = "L63"
    /\ UNCHANGED <<call_frame, encoder_state, residual, layer, keys, values, queries,
                   attention_weights, hidden_state, args>>

\* attention_weights = torch.einsum('bchq,bkhc->bkhq', ...)
Scores ==
    /\ pc = "L63"
    /\ attention_weights' = AttentionScores(self_attn, queries, keys)
    /\ pc' = "L68"
    /\ UNCHANGED <<call_frame, encoder_state, residual, layer, keys, values, queries,
                   attention_bias, hidden_state, args>>

\* attention_weights += attention_bias[:, :, None, None]
MaskScores ==
    /\ pc = "L68"
    /\ attention_weights' = AddBias(attention_weights, attention_bias)
    /\ pc' = "L69"
    /\ UNCHANGED <<call_frame, encoder_state, residual, layer, keys, values, queries,
                   attention_bias, hidden_state, args>>

\* A slip: the softmax taken over the last axis, the queries.
NormalizeOverQueries ==
    /\ pc = "L69"
    /\ attention_weights' = Softmax(attention_weights, 3)
    /\ pc' = "L71"
    /\ UNCHANGED <<call_frame, encoder_state, residual, layer, keys, values, queries,
                   attention_bias, hidden_state, args>>

\* attention_weights = torch.softmax(attention_weights, 1)
Normalize ==
    /\ pc = "L69"
    /\ attention_weights' = Softmax(attention_weights, 1)
    /\ pc' = "L71"
    /\ UNCHANGED <<call_frame, encoder_state, residual, layer, keys, values, queries,
                   attention_bias, hidden_state, args>>

\* hidden_state = torch.einsum("bkhq,bchk->bchq", attention_weights, values)
Attend ==
    /\ pc = "L71"
    /\ hidden_state' = WeightedSum(attention_weights, values)
    /\ pc' = "L78"
    /\ UNCHANGED <<call_frame, encoder_state, residual, layer, keys, values, queries,
                   attention_bias, attention_weights, args>>

\* hidden_state = hidden_state.transpose(1, 2).reshape(batch_count, embed_count, 1, -1)
Merge ==
    /\ pc = "L78"
    /\ hidden_state' = HeadsMerge(self_attn, args.keys.shape[1], hidden_state)
    /\ pc' = "L80"
    /\ UNCHANGED <<call_frame, encoder_state, residual, layer, keys, values, queries,
                   attention_bias, attention_weights, args>>

\* hidden_state = self.out_proj.forward(hidden_state); return hidden_state:
\* the layer's encoder_state is what self_attn.forward returned
OutProj ==
    /\ pc = "L80"
    /\ hidden_state' = Conv2dForward(self_attn.out_proj, hidden_state)
    /\ encoder_state' = hidden_state'
    /\ pc' = "L115"
    /\ UNCHANGED <<call_frame, residual, layer, keys, values, queries,
                   attention_bias, attention_weights, args>>

\* encoder_state = encoder_state.transpose(1, 3).squeeze(2)
Relayout ==
    /\ pc = "L115"
    /\ encoder_state' = AttentionOutput(encoder_state)
    /\ pc' = "L116"
    /\ UNCHANGED <<call_frame, residual, layer, attn_locals>>

\* encoder_state = self.self_attn_layer_norm.forward(encoder_state)
PostNorm ==
    /\ pc = "L116"
    /\ encoder_state' = LayerNormForward(ThisLayer.self_attn_layer_norm, encoder_state)
    /\ pc' = "L117"
    /\ UNCHANGED <<call_frame, residual, layer, attn_locals>>

\* encoder_state = residual + encoder_state
AddResidual ==
    /\ pc = "L117"
    /\ encoder_state' = TAdd(residual, encoder_state)
    /\ pc' = "L118"
    /\ UNCHANGED <<call_frame, residual, layer, attn_locals>>

\* A slip: the second residual is not taken, the first one stays.
KeepResidualForgotten ==
    /\ pc = "L118"
    /\ pc' = "L119"
    /\ UNCHANGED <<call_frame, encoder_state, residual, layer, attn_locals>>

\* residual = encoder_state
KeepResidual ==
    /\ pc = "L118"
    /\ residual' = encoder_state
    /\ pc' = "L119"
    /\ UNCHANGED <<call_frame, encoder_state, layer, attn_locals>>

\* encoder_state = self.glu.forward(encoder_state)
Glu ==
    /\ pc = "L119"
    /\ encoder_state' = GLUForward(ThisLayer.glu, encoder_state)
    /\ pc' = "L120"
    /\ UNCHANGED <<call_frame, residual, layer, attn_locals>>

\* encoder_state = residual + encoder_state; return encoder_state:
\* the loop goes on with the next layer
AddResidualGlu ==
    /\ pc = "L120"
    /\ encoder_state' = TAdd(residual, encoder_state)
    /\ layer' = layer + 1
    /\ pc' = "L156"
    /\ UNCHANGED <<call_frame, residual, attn_locals>>

--------------------------------------------------------------------------
(* The end of DalleBartEncoderTorch.forward *)

\* encoder_state = self.final_ln.forward(encoder_state)
FinalNorm ==
    /\ pc = "L158"
    /\ encoder_state' = LayerNormForward(enc.final_ln, encoder_state)
    /\ trace' = Append(trace, Stage("final_ln", 0))
    /\ pc' = "L159"
    /\ UNCHANGED <<cfg, enc, text_tokens, attention_mask, residual, layer, attn_locals,
                   error, output, layer_input, failed_before>>

\* return encoder_state
Return ==
    /\ pc = "L159"
    /\ output' = encoder_state
    /\ pc' = "done"
    /\ UNCHANGED <<cfg, enc, text_tokens, locals, error, trace, failed_before>>

\* The call is over: the caller has its result or its exception, the call's
\* locals are gone, and the encoder can be called again.
Finish ==
    /\ pc \in {"done", "raised"}
    /\ failed_before' = (failed_before \/ pc = "raised")
    /\ pc' = "ready"
    /\ text_tokens' = NoTensor
    /\ error' = NoError
    /\ output' = NoTensor
    /\ trace' = <<>>
    /\ attention_mask' = NoTensor
    /\ encoder_state' = NoTensor
    /\ residual' = NoTensor
    /\ layer' = 0
    /\ keys' = NoTensor
    /\ values' = NoTensor
    /\ queries' = NoTensor
    /\ attention_bias' = NoTensor
    /\ attention_weights' = NoTensor
    /\ hidden_state' = NoTensor
    /\ args' = NoArgs
    /\ layer_input' = NoTensor
    /\ UNCHANGED <<cfg, enc>>

Next ==
    \/ Construct \/ Call \/ DeriveMask
    \/ EmbedTokensFail \/ EmbedPositionsFail \/ Embed \/ EmbedNorm
    \/ LoopEnter \/ LoopExit
    \/ PreNorm \/ Project \/ SplitKeys \/ SplitKeysFail \/ SplitHeads
    \/ Bias \/ Scores \/ MaskScores \/ Normalize \/ Attend \/ Merge \/ OutProj
    \/ Relayout \/ PostNorm \/ AddResidual \/ KeepResidual \/ Glu \/ AddResidualGlu
    \/ FinalNorm \/ Return \/ Finish

Spec == Init /\ [][Next]_vars

--------------------------------------------------------------------------
(* What the claims speak of *)

InCall == pc \notin {"new", "ready"}

\* The call's batch_count and token_count, and the module's dimensions.
BatchCount == text_tokens.shape[1]
TokenCount == text_tokens.shape[2]
EmbedCount == cfg.embed_count
HeadCount == cfg.attention_head_count
HeadDim == cfg.embed_count \div cfg.attention_head_count

Batch == 0..(BatchCount - 1)
Positions == 0..(TokenCount - 1)
Channels == 0..(EmbedCount - 1)
Heads == 0..(HeadCount - 1)

IsPad(b, k) == At(text_tokens, <<b, k>>) = 1
HasWord(b) == \E k \in Positions : ~IsPad(b, k)

\* attention_weights holds the softmax's probabilities of the layer at hand.
Normalized == pc \in {"L71", "L78", "L80"}

\* keys, values and queries are split into heads.
HeadsAreSplit == pc \in {"L58", "L63", "L68", "L69", "L71", "L78"}

\* Batch row b of t, as a batch of one.
RowOf(t, b) == MkTensor(SetAt(t.shape, 0, 1), LAMBDA idx : At(t, SetAt(idx, 0, b)))

\* text_tokens' row b, as the token tensor of a batch of one.
TokenRow(b) == RowOf(text_tokens, b)

Finite(x) == x # NaN /\ x # NegInf

--------------------------------------------------------------------------
(* C1 *)

\* C1 as stated: in every encoder layer, every key position that holds the pad
\* id 1 has attention weight exactly 0, for every batch row, head and query.
C1_PadKeysWeighZero ==
    Normalized =>
        \A b \in Batch, k \in Positions, h \in Heads, q \in Positions :
            IsPad(b, k) => At(attention_weights, <<b, k, h, q>>) = 0

\* C1 amended: in every encoder layer, for every batch row that has at least one
\* non-pad token, every key position that holds the pad id 1 has attention
\* weight exactly 0, for every head and every query position (a row of pads
\* only has the weight NaN everywhere).
C1_PadKeysWeighZeroInRowsWithAWord ==
    Normalized =>
        \A b \in Batch :
            IF HasWord(b)
            THEN \A k \in Positions, h \in Heads, q \in Positions :
                    IsPad(b, k) => At(attention_weights, <<b, k, h, q>>) = 0
            ELSE \A k \in Positions, h \in Heads, q \in Positions :
                    At(attention_weights, <<b, k, h, q>>) = NaN

\* A second layer's softmax over two rows, one with a pad key after a word
\* and one a word before a pad: pad keys, pad queries, two heads.
C1_Witness ==
    /\ pc = "L71"
    /\ layer = 1
    /\ HeadCount = 2
    /\ BatchCount = 2
    /\ TokenCount = 2
    /\ ~IsPad(0, 0) /\ IsPad(0, 1)
    /\ IsPad(1, 0) /\ ~IsPad(1, 1)
    /\ At(attention_weights, <<0, 0, 0, 1>>) = Unit

--------------------------------------------------------------------------
(* C2 *)

\* C2 as stated: the GLU block's forward and the self-attention module's
\* forward both return a tensor of the shape of their input,
\* [batch, seq_len, embed_dim].
C2_BothPreserveShape ==
    /\ pc = "L120" => encoder_state.shape = <<BatchCount, TokenCount, EmbedCount>>
    /\ pc = "L115" => encoder_state.shape = <<BatchCount, TokenCount, EmbedCount>>

\* C2 amended: the GLU block's forward returns a tensor of the shape of its
\* input, [batch, seq_len, embed_dim]; the self-attention module's forward,
\* given [batch, seq_len, embed_dim], returns [batch, embed_dim, 1, seq_len],
\* which the encoder layer transposes and squeezes to [batch, seq_len,
\* embed_dim] before it uses it.
C2_GluPreservesShapeAttentionReturnsChannelsFirst ==
    /\ pc = "L120" =>
          /\ residual.shape = <<BatchCount, TokenCount, EmbedCount>>
          /\ encoder_state.shape = residual.shape
    /\ pc = "L115" =>
          /\ residual.shape = <<BatchCount, TokenCount, EmbedCount>>
          /\ encoder_state.shape = <<BatchCount, EmbedCount, 1, TokenCount>>
    /\ pc = "L116" => encoder_state.shape = <<BatchCount, TokenCount, EmbedCount>>

\* The attention of a batch of two rows of two tokens has returned.
C2_Witness ==
    /\ pc = "L116"
    /\ encoder_state.shape = <<2, 2, 4>>
    /\ hidden_state.shape = <<2, 4, 1, 2>>

--------------------------------------------------------------------------
(* C3 *)

\* C3 as stated: an encoder whose head_count does not divide its embed_dim is
\* never constructed, so no forward call runs on one.
C3_ConstructionRejectsIndivisibleHeads ==
    pc # "new" => cfg.embed_count % cfg.attention_head_count = 0

--------------------------------------------------------------------------
(* C4 *)

ValidTokens ==
    /\ \A b \in Batch, k \in Positions :
          At(text_tokens, <<b, k>>) >= 0 /\ At(text_tokens, <<b, k>>) < cfg.text_vocab_count
    /\ TokenCount <= cfg.text_token_count

\* C4: a call with a token id outside [0, vocab_size) or a row longer than
\* the position table raises at the embedding lookup (lines 152, 153) before
\* any stage has produced a value: no layer runs, nothing is returned, the
\* weights are those the constructor made, and a call that returns after
\* calls that failed returns what its tokens and the weights determine.
C4_InvalidTokensFailAtEmbedding ==
    /\ pc \in {"ready", "raised", "done"} => enc = DalleBartEncoderInit(cfg)
    /\ (pc \notin {"new", "ready", "L148", "L152"} /\ ~ValidTokens) =>
          /\ pc = "raised"
          /\ error.type = "IndexError"
          /\ error.line \in {152, 153}
          /\ trace = <<>>
          /\ encoder_state = NoTensor
          /\ output = NoTensor
    /\ (pc = "done" /\ failed_before) => output = EncoderForward(enc, text_tokens)

\* A call has returned from an encoder an earlier call of which raised
\* IndexError (no other error is possible in this configuration).
C4_Witness ==
    /\ pc = "done"
    /\ failed_before
    /\ cfg.layer_count = 1
    /\ cfg.embed_count % cfg.attention_head_count = 0

--------------------------------------------------------------------------
(* C5 *)

\* C5: a batch of two rows returns, for each row, what a call with that row
\* alone returns (a row of NaN for a row of pads only, in both).
C5_BatchIndependence ==
    (pc = "done" /\ BatchCount = 2) =>
        \A b \in Batch : RowOf(output, b) = EncoderForward(enc, TokenRow(b))

\* Two layers have run on two different rows with different masks.
C5_Witness ==
    /\ pc = "done"
    /\ BatchCount = 2
    /\ cfg.layer_count = 2
    /\ TokenCount = 2
    /\ ~IsPad(0, 0) /\ ~IsPad(0, 1)
    /\ ~IsPad(1, 0) /\ IsPad(1, 1)
    /\ RowOf(output, 0) # RowOf(output, 1)

--------------------------------------------------------------------------
(* C6 *)

\* C6: a layer returns mid + GLU(mid), where
\* mid = input + PostNorm(SelfAttention(PreNorm(input), mask)).
C6_LayerIsTwoResiduals ==
    (pc = "L156" /\ layer >= 1) =>
        LET l == enc.layers[layer]
            attended == EncoderSelfAttentionForward(
                            l.self_attn,
                            LayerNormForward(l.pre_self_attn_layer_norm, layer_input),
                            attention_mask)
            mid == TAdd(layer_input,
                        LayerNormForward(l.self_attn_layer_norm,
                                         AttentionOutput(attended)))
        IN  encoder_state = TAdd(mid, GLUForward(l.glu, mid))

\* The second layer has returned, and neither residual sum is its input.
C6_Witness ==
    /\ pc = "L156"
    /\ layer = 2
    /\ TokenCount = 2
    /\ encoder_state # layer_input
    /\ residual # layer_input
    /\ encoder_state # residual
    /\ \A n \in 1..Len(encoder_state.data) : Finite(encoder_state.data[n])

--------------------------------------------------------------------------
(* C7 *)

RECURSIVE LayerStages(_)
LayerStages(n) == IF n = 0 THEN <<>> ELSE Append(LayerStages(n - 1), Stage("layer", n - 1))

\* The stages of a call on an encoder of n layers.
AllStages(n) ==
    <<Stage("embed", 0), Stage("layernorm_embedding", 0)>>
        \o LayerStages(n) \o <<Stage("final_ln", 0)>>

IsPrefix(s, t) == Len(s) <= Len(t) /\ s = SubSeq(t, 1, Len(s))

\* C7: a call runs the embedding sum, the embedding norm, every layer once
\* in index order and the final norm, in this order; the mask is the one
\* derived from the tokens, at every line; layer i is given the output of
\* layer i - 1; the call returns the output of the final norm.
C7_StagesRunInOrder ==
    /\ InCall => IsPrefix(trace, AllStages(cfg.layer_count))
    /\ pc \notin {"new", "ready", "L148"} => attention_mask = AttentionMask(text_tokens)
    /\ pc = "L156" => Len(trace) = 2 + layer
    /\ pc = "L159" =>
          /\ layer = cfg.layer_count
          /\ trace = AllStages(cfg.layer_count)
    /\ pc = "done" =>
          /\ trace = AllStages(cfg.layer_count)
          /\ output = encoder_state
          /\ output = LayerNormForward(
                          enc.final_ln,
                          RunLayers(enc, cfg.layer_count,
                                    LayerNormForward(enc.layernorm_embedding,
                                                     EmbedSum(enc, text_tokens)),
                                    AttentionMask(text_tokens)))

\* A call on the encoder of two layers has returned.
C7_Witness ==
    /\ pc = "done"
    /\ cfg.layer_count = 2
    /\ trace = <<Stage("embed", 0), Stage("layernorm_embedding", 0),
                 Stage("layer", 0), Stage("layer", 1), Stage("final_ln", 0)>>
    /\ TokenCount = 2

--------------------------------------------------------------------------
(* C8 *)

\* C8 as stated: on a sequence of one position whose mask is True, what the
\* attention returns is the value projection of that position, in every
\* batch row and channel.
C8_SinglePositionReturnsValues ==
    (pc = "L115" /\ TokenCount = 1) =>
        \A b \in Batch, e \in Channels :
            ~IsPad(b, 0) =>
                At(encoder_state, <<b, e, 0, 0>>) = At(args.values, <<b, e, 0, 0>>)

\* C8 amended: on a sequence of one position whose mask is True, the
\* attention's weighted sum (its hidden_state before out_proj) is the value
\* projection of that position, in every batch row and channel; what the
\* attention returns is out_proj applied to it.
C8_SinglePositionAttendsToItsValues ==
    /\ (pc = "L80" /\ TokenCount = 1) =>
          \A b \in Batch, e \in Channels :
              ~IsPad(b, 0) =>
                  At(hidden_state, <<b, e, 0, 0>>) = At(args.values, <<b, e, 0, 0>>)
    /\ (pc = "L115" /\ TokenCount = 1) =>
          \A b \in Batch, e \in Channels :
              ~IsPad(b, 0) =>
                  At(encoder_state, <<b, e, 0, 0>>) =
                      At(Conv2dForward(self_attn.out_proj, args.values), <<b, e, 0, 0>>)

\* Two heads of two channels have attended over one word, and the four
\* channels of its value projection differ.
C8_Witness ==
    /\ pc = "L80"
    /\ TokenCount = 1
    /\ BatchCount = 1
    /\ ~IsPad(0, 0)
    /\ HeadCount = 2
    /\ EmbedCount = 4
    /\ Cardinality({At(args.values, <<0, e, 0, 0>> ) : e \in Channels}) = 4

--------------------------------------------------------------------------
(* C9 *)

\* The attention weight that query q of head h in row b puts on the keys
\* that are not pad.
WeightOnWords(b, h, q) ==
    FSum([k \in 1..TokenCount |->
            IF IsPad(b, k - 1) THEN 0 ELSE At(attention_weights, <<b, k - 1, h, q>>)],
         TokenCount)

\* C9: in every batch row that has a non-pad token, every query position,
\* pad or not, has finite attention weights that sum to 1 over the non-pad
\* keys (up to the rounding of each weight), and every position of the row,
\* pad or not, gets a finite output embedding.
C9_QueriesOfRowsWithAWordSumToOne ==
    /\ Normalized =>
          \A b \in Batch :
              HasWord(b) =>
                  \A h \in Heads, q \in Positions :
                      /\ \A k \in Positions :
                            /\ Finite(At(attention_weights, <<b, k, h, q>>))
                            /\ At(attention_weights, <<b, k, h, q>>) >= 0
                      /\ WeightOnWords(b, h, q) <= Unit
                      /\ WeightOnWords(b, h, q) >= Unit - (TokenCount - 1)
    /\ pc = "done" =>
          \A b \in Batch :
              HasWord(b) =>
                  \A q \in Positions, e \in Channels : Finite(At(output, <<b, q, e>>))

\* A pad position is a query of the second layer, in a row with a word,
\* beside a row without one; a word of a row of two words gets part of the
\* weight only.
C9_Witness ==
    /\ pc = "L71"
    /\ layer = 1
    /\ BatchCount = 2
    /\ TokenCount = 2
    /\ IsPad(0, 0) /\ ~IsPad(0, 1)
    /\ At(attention_weights, <<0, 1, 0, 0>>) = Unit
    /\ IsPad(1, 0) /\ IsPad(1, 1)

--------------------------------------------------------------------------
(* C10 *)

\* The score of key k for query q in head h of row b, from the channels
\* h * head_dim .. h * head_dim + head_dim - 1 of the two projections.
HeadScore(b, k, h, q) ==
    FSum([c \in 1..HeadDim |->
            FMul(FDiv(At(args.queries, <<b, h * HeadDim + c - 1, 0, q>>),
                      FSqrt(HeadDim * Unit)),
                 At(args.keys, <<b, h * HeadDim + c - 1, 0, k>>))],
         HeadDim)

\* C10: with head_count dividing embed_dim, the split of the keys, of the
\* queries and of the values puts channel e of position p at head
\* e div head_dim, offset e mod head_dim, position p; the score of head h
\* is the product of the query and key channels of head h; merging what was
\* split gives back the channels and positions in their order.
C10_SplitAndMergeAgreeOnChannels ==
    /\ HeadsAreSplit =>
          /\ keys.shape = <<BatchCount, TokenCount, HeadCount, HeadDim>>
          /\ queries.shape = <<BatchCount, HeadDim, HeadCount, TokenCount>>
          /\ values.shape = <<BatchCount, HeadDim, HeadCount, TokenCount>>
          /\ \A b \in Batch, e \in Channels, p \in Positions :
                /\ At(keys, <<b, p, e \div HeadDim, e % HeadDim>>)
                      = At(args.keys, <<b, e, 0, p>>)
                /\ At(queries, <<b, e % HeadDim, e \div HeadDim, p>>)
                      = At(args.queries, <<b, e, 0, p>>)
                /\ At(values, <<b, e % HeadDim, e \div HeadDim, p>>)
                      = At(args.values, <<b, e, 0, p>>)
          /\ HeadsMerge(self_attn, BatchCount, values) = args.values
          /\ HeadsMerge(self_attn, BatchCount, queries) = args.queries
    /\ pc = "L68" =>
          \A b \in Batch, k \in Positions, h \in Heads, q \in Positions :
              At(attention_weights, <<b, k, h, q>>) = HeadScore(b, k, h, q)
    /\ pc = "L78" =>
          \A b \in Batch, e \in Channels, p \in Positions :
              At(HeadsMerge(self_attn, BatchCount, hidden_state), <<b, e, 0, p>>)
                  = At(hidden_state, <<b, e % HeadDim, e \div HeadDim, p>>)

\* Two heads of two channels are split over two positions, and the keys of
\* position 0 differ in all four channels.
C10_Witness ==
    /\ pc = "L78"
    /\ HeadCount = 2
    /\ HeadDim = 2
    /\ TokenCount = 2
    /\ Cardinality({At(args.keys, <<0, e, 0, 0>>) : e \in Channels}) = 4
    /\ Cardinality({At(hidden_state, <<0, e % HeadDim, e \div HeadDim, 1>>) :
                        e \in Channels}) >= 3

====
